---- MODULE Spec2Model ----
(***************************************************************************)
(* Web-Directory: a bookmark manager kept in IndexedDB.  The repository    *)
(* holds two implementations of the same application:                      *)
(*   "script"  - src/script.js           (classes BookmarkDB, BookmarkApp) *)
(*   "part"    - src/unnamed/part_000    (one closure over `state`)        *)
(* The variable impl says which one the page has loaded.                   *)
(*                                                                         *)
(* A JavaScript string is modelled as the sequence of its characters, so   *)
(* that trim, split, toLowerCase, includes and the URL parser are computed *)
(* and not assumed.                                                        *)
(***************************************************************************)
EXTENDS Integers, Sequences, FiniteSets, TLC

VARIABLES
    impl,               \* which implementation is loaded
    \* ---- IndexedDB
    store,              \* object store 'bookmarks': key -> record
    keyGen,             \* the store's key generator (autoIncrement)
    txs,                \* live transactions, in creation order
    clock,              \* wall clock, in minutes
    \* ---- src/script.js: BookmarkApp fields and the DOM it writes
    currentPage, allBookmarks, filteredBookmarks, currentEditId, deleteTargetId,
    totalCount, displayCount,
    \* ---- src/unnamed/part_000: state and the form
    page, items, total, keyword, deletingId, mode, f_id,
    \* ---- both: the search box
    searchInput,
    \* ---- observation
    reported,           \* the kind of the last error a handler reported to the
                        \* user (showToast(..., 'error'), setCustomValidity, alert)
    exported,           \* the rows of the last export, in the order written
    lastQuery,          \* the keyword of the reload that was started last
    pageAsked,          \* the page number of the last page request
    issued,             \* ids returned by successful creates, in order
    removed,            \* deletes that removed a record: its id, and how many
                        \* creates had succeeded by then
    \* ---- tag normalisation on its own (SpecTags)
    tagIn, tagOut, tagPc,
    tagSaved            \* the tags a record had when its edit form was opened

vars == << impl, store, keyGen, txs, clock,
           currentPage, allBookmarks, filteredBookmarks, currentEditId,
           deleteTargetId, totalCount, displayCount,
           page, items, total, keyword, deletingId, mode, f_id,
           searchInput, reported, exported, lastQuery, pageAsked, issued, removed,
           tagIn, tagOut, tagPc, tagSaved >>

-----------------------------------------------------------------------------
(* Bounds of the model *)

\* ids the key generator may hand out before the model stops creating
MaxKey == 2
\* transactions that may be live at once (handlers waiting on storage)
MaxTx == 2
\* last value of the wall clock
MaxClock == 0
\* longest tag input fed to the normaliser on its own
MaxTagLen == 4
\* most records a database holds when the page is opened on it
MaxSeed == 14
\* highest page number a page request asks for (the lowest is -1)
MaxPageArg == 3

-----------------------------------------------------------------------------
(* Strings *)

Empty == << >>

WhiteSpace == {" ", "\t"}

\* String.prototype.trim
RECURSIVE TrimStart(_)
TrimStart(s) ==
    IF s = Empty THEN s
    ELSE IF Head(s) \in WhiteSpace THEN TrimStart(Tail(s)) ELSE s

RECURSIVE TrimEnd(_)
TrimEnd(s) ==
    IF s = Empty THEN s
    ELSE IF s[Len(s)] \in WhiteSpace THEN TrimEnd(SubSeq(s, 1, Len(s) - 1)) ELSE s

Trim(s) == TrimEnd(TrimStart(s))

UpperCase == <<"A", "B", "C", "D", "E", "F", "G", "H", "I", "J", "K", "L", "M",
               "N", "O", "P", "Q", "R", "S", "T", "U", "V", "W", "X", "Y", "Z">>
LowerCase == <<"a", "b", "c", "d", "e", "f", "g", "h", "i", "j", "k", "l", "m",
               "n", "o", "p", "q", "r", "s", "t", "u", "v", "w", "x", "y", "z">>

\* the lower-case form of every upper-case letter
LowerOf == [k \in DOMAIN UpperCase |-> LowerCase[k]]
UpperSet == { UpperCase[k] : k \in DOMAIN UpperCase }
UpperIndex == [c \in UpperSet |-> CHOOSE k \in DOMAIN UpperCase : UpperCase[k] = c]

LowerChar(c) == IF c \in UpperSet THEN LowerOf[UpperIndex[c]] ELSE c

\* String.prototype.toLowerCase
toLowerCase(s) == [i \in DOMAIN s |-> LowerChar(s[i])]

\* String.prototype.includes
includes(s, sub) ==
    \E i \in 0..(Len(s) - Len(sub)) : SubSeq(s, i + 1, i + Len(sub)) = sub

\* Array.prototype.filter(x => x.length > 0) / filter(Boolean) on strings
RECURSIVE NonEmpty(_)
NonEmpty(ts) ==
    IF ts = << >> THEN << >>
    ELSE IF Head(ts) = Empty THEN NonEmpty(Tail(ts))
         ELSE << Head(ts) >> \o NonEmpty(Tail(ts))

\* String.prototype.split with a separator set.  runs = TRUE is a regular
\* expression [seps]+ (a run of separators is one cut), runs = FALSE is a
\* one-character separator (every separator cuts).
RECURSIVE SplitOn(_, _, _, _, _)
SplitOn(s, seps, runs, cur, prevSep) ==
    IF s = Empty THEN << cur >>
    ELSE IF Head(s) \in seps
         THEN IF runs /\ prevSep
              THEN SplitOn(Tail(s), seps, runs, cur, TRUE)
              ELSE << cur >> \o SplitOn(Tail(s), seps, runs, Empty, TRUE)
         ELSE SplitOn(Tail(s), seps, runs, Append(cur, Head(s)), FALSE)

\* String.prototype.join
RECURSIVE join(_, _)
join(ts, sep) ==
    IF ts = << >> THEN Empty
    ELSE IF Len(ts) = 1 THEN ts[1]
         ELSE ts[1] \o sep \o join(Tail(ts), sep)

-----------------------------------------------------------------------------
(* Tags *)

\* U+FF0C FULLWIDTH COMMA and U+FF1B FULLWIDTH SEMICOLON, as one character each
FullWidthComma == "U+FF0C"
FullWidthSemicolon == "U+FF1B"

\* the separators of the regular expression in tagsInput.split(...):
\* comma, semicolon, their full-width forms, and \s
TagSeparators == {",", ";", FullWidthComma, FullWidthSemicolon} \cup WhiteSpace

\* the loop that removes duplicates (case-insensitive), first casing kept
RECURSIVE uniqueTags(_, _)
uniqueTags(tags, lowerCaseTags) ==
    IF tags = << >> THEN << >>
    ELSE LET lowerTag == toLowerCase(Head(tags))
         IN  IF lowerTag \in lowerCaseTags
             THEN uniqueTags(Tail(tags), lowerCaseTags)
             ELSE << Head(tags) >>
                  \o uniqueTags(Tail(tags), lowerCaseTags \cup {lowerTag})

\* script.js handleFormSubmit: the tag parsing of the trimmed tags field
handleFormSubmitTags(value) ==
    LET tagsInput == Trim(value)
    IN  IF tagsInput = Empty THEN << >>
        ELSE uniqueTags(
                NonEmpty([i \in DOMAIN SplitOn(tagsInput, TagSeparators, TRUE, Empty, FALSE)
                            |-> Trim(SplitOn(tagsInput, TagSeparators, TRUE, Empty, FALSE)[i])]),
                {})

PARSE_TAGS_LIMIT == 12

\* part_000 parseTags
parseTags(input) ==
    IF input = Empty THEN << >>
    ELSE LET parts == SplitOn(input, {","}, FALSE, Empty, FALSE)
             kept  == NonEmpty([i \in DOMAIN parts |-> Trim(parts[i])])
         IN  SubSeq(kept, 1, IF Len(kept) < PARSE_TAGS_LIMIT THEN Len(kept)
                                ELSE PARSE_TAGS_LIMIT)

-----------------------------------------------------------------------------
(* URLs: the URL constructor, called with no base *)

Letters == {"a", "b", "c", "d", "e", "f", "g", "h", "i", "j", "k", "l", "m",
            "n", "o", "p", "q", "r", "s", "t", "u", "v", "w", "x", "y", "z"}
DigitChars == {"0", "1", "2", "3", "4", "5", "6", "7", "8", "9"}
SchemeChars == Letters \cup DigitChars \cup {"+", "-", "."}
SpecialSchemes == { <<"h","t","t","p">>, <<"h","t","t","p","s">>,
                    <<"f","t","p">>, <<"w","s">>, <<"w","s","s">> }
\* characters that end the host, and characters a host may not hold
HostEnd == {"/", "?", "#"}
ForbiddenHost == WhiteSpace \cup {"<", ">", "^", "|", "%"}

RECURSIVE IndexOf(_, _, _)
IndexOf(s, cs, from) ==
    IF from > Len(s) THEN 0
    ELSE IF s[from] \in cs THEN from ELSE IndexOf(s, cs, from + 1)

RECURSIVE SkipSlashes(_)
SkipSlashes(s) ==
    IF s # Empty /\ Head(s) \in {"/", "\\"} THEN SkipSlashes(Tail(s)) ELSE s

HostOf(s) ==
    LET e == IndexOf(s, HostEnd, 1)
    IN  IF e = 0 THEN s ELSE SubSeq(s, 1, e - 1)

URLFailure == [ok |-> FALSE, protocol |-> Empty, authority |-> FALSE, host |-> Empty]

\* new URL(url): throws (ok = FALSE) or gives the parsed URL.
\*   no "scheme:" at the start                  -> throws (there is no base)
\*   special scheme (http, https, ftp, ws, wss) -> needs a non-empty host
\*   any other scheme                           -> parses; it has an authority
\*                                                 only when "//" follows
URLParse(url) ==
    LET s      == Trim(url)
        colon  == IndexOf(s, {":"}, 1)
        scheme == toLowerCase(SubSeq(s, 1, colon - 1))
        rest   == SubSeq(s, colon + 1, Len(s))
    IN  IF colon <= 1 THEN URLFailure
        ELSE IF ~ (scheme[1] \in Letters /\ \A i \in DOMAIN scheme : scheme[i] \in SchemeChars)
             THEN URLFailure
        ELSE IF scheme \in SpecialSchemes
             THEN LET host == HostOf(SkipSlashes(rest))
                  IN  IF host = Empty \/ \E i \in DOMAIN host : host[i] \in ForbiddenHost
                      THEN URLFailure
                      ELSE [ok |-> TRUE, protocol |-> scheme \o <<":">>,
                            authority |-> TRUE, host |-> toLowerCase(host)]
        ELSE IF Len(rest) >= 2 /\ SubSeq(rest, 1, 2) = <<"/", "/">>
             THEN LET host == HostOf(SubSeq(rest, 3, Len(rest)))
                  IN  IF \E i \in DOMAIN host : host[i] \in ForbiddenHost
                      THEN URLFailure
                      ELSE [ok |-> TRUE, protocol |-> scheme \o <<":">>,
                            authority |-> TRUE, host |-> host]
        ELSE [ok |-> TRUE, protocol |-> scheme \o <<":">>,
              authority |-> FALSE, host |-> Empty]

\* a form that takes any text for a url
handleFormSubmitUrlUnchecked(url) == TRUE

\* script.js handleFormSubmit: try { new URL(url) } catch { ... return }
handleFormSubmitUrlOk(url) == URLParse(url).ok

\* part_000 isValidUrl
isValidUrl(url) ==
    LET u == URLParse(url)
    IN  u.ok /\ u.protocol \in { <<"h","t","t","p",":">>, <<"h","t","t","p","s",":">> }

-----------------------------------------------------------------------------
(* Dates *)

Digits == <<"0", "1", "2", "3", "4", "5", "6", "7", "8", "9">>

\* String(n).padStart(2, '0'), for 0 <= n <= 99
pad(n) == << Digits[(n \div 10) + 1], Digits[(n % 10) + 1] >>

\* String(year), for a four-digit year
YearString(y) ==
    << Digits[(y \div 1000) + 1], Digits[((y \div 100) % 10) + 1],
       Digits[((y \div 10) % 10) + 1], Digits[(y % 10) + 1] >>

\* new Date() when the clock shows t minutes past 2026-11-03 00:00
\* (local time; getMonth() counts from 0)
DateAt(t) ==
    [year |-> 2026, month |-> 10, date |-> 3 + (t \div 1440),
     hours |-> (t \div 60) % 24, minutes |-> t % 60]

\* part_000 fmtDate: YYYY-MM-DD HH:MM
fmtDate(d) ==
    YearString(d.year) \o <<"-">> \o pad(d.month + 1) \o <<"-">> \o pad(d.date)
        \o <<" ">> \o pad(d.hours) \o <<":">> \o pad(d.minutes)

\* script.js BookmarkDB.add: formattedDate
formattedDate(now) ==
    LET year    == YearString(now.year)
        month   == pad(now.month + 1)
        day     == pad(now.date)
        hours   == pad(now.hours)
        minutes == pad(now.minutes)
    IN  year \o <<"-">> \o month \o <<"-">> \o day \o <<" ">> \o hours \o <<":">> \o minutes

DigitValue(c) == CHOOSE v \in 0..9 : Digits[v + 1] = c

RECURSIVE Number(_)
Number(s) == IF s = Empty THEN 0 ELSE 10 * Number(SubSeq(s, 1, Len(s) - 1)) + DigitValue(s[Len(s)])

AllDigits(s) == \A i \in DOMAIN s : s[i] \in DigitChars

NaN == -1

\* new Date(string).getTime(), in minutes: a number that grows with the date
\* for "YYYY-MM-DD HH:MM", NaN for any other text
DateValue(s) ==
    IF /\ Len(s) = 16
       /\ s[5] = "-" /\ s[8] = "-" /\ s[11] = " " /\ s[14] = ":"
       /\ AllDigits(SubSeq(s, 1, 4)) /\ AllDigits(SubSeq(s, 6, 7))
       /\ AllDigits(SubSeq(s, 9, 10)) /\ AllDigits(SubSeq(s, 12, 13))
       /\ AllDigits(SubSeq(s, 15, 16))
    THEN ((((Number(SubSeq(s, 1, 4)) - 1970) * 12 + (Number(SubSeq(s, 6, 7)) - 1)) * 31
            + (Number(SubSeq(s, 9, 10)) - 1)) * 24 + Number(SubSeq(s, 12, 13))) * 60
            + Number(SubSeq(s, 15, 16))
    ELSE NaN

-----------------------------------------------------------------------------
(* Records, queries *)

\* null / '' in a field that holds a record id (ids start at 1)
NoId == 0

NoData == [name |-> Empty, url |-> Empty, tags |-> << >>, createdAt |-> Empty]

\* a store that keeps every field of the draft but its tags
WithIdNoTags(data, id) ==
    [id |-> id, name |-> data.name, url |-> data.url, tags |-> << >>,
     createdAt |-> data.createdAt]

WithId(data, id) ==
    [id |-> id, name |-> data.name, url |-> data.url, tags |-> data.tags,
     createdAt |-> data.createdAt]

EmptyStore == [k \in {} |-> WithId(NoData, NoId)]

\* a get that answers with a blank record where there is none
StoreGetOrBlank(st, id) ==
    IF id \in DOMAIN st THEN << st[id] >>
    ELSE << [id |-> id, name |-> << >>, url |-> << >>, tags |-> << >>,
             createdAt |-> << >>] >>

\* objectStore.get(id): the record, or undefined (here: no element)
StoreGet(st, id) == IF id \in DOMAIN st THEN << st[id] >> ELSE << >>

\* objectStore.getAll(): every record, in key order
RECURSIVE KeysUpTo(_, _)
KeysUpTo(st, k) ==
    IF k = 0 THEN << >>
    ELSE KeysUpTo(st, k - 1) \o (IF k \in DOMAIN st THEN << st[k] >> ELSE << >>)

StoreGetAll(st, kg) == KeysUpTo(st, kg)

\* objectStore.put(record): stored under its key path 'id', replacing or adding
StorePut(st, rec) ==
    [k \in DOMAIN st \cup {rec.id} |-> IF k = rec.id THEN rec ELSE st[k]]

\* a delete that takes every record with it
StoreDeleteCascade(st, id) == [k \in {} |-> st[k]]

\* objectStore.delete(id): succeeds whether or not the key is there
StoreDelete(st, id) == [k \in DOMAIN st \ {id} |-> st[k]]

\* a key generator without memory: one more than the highest key in the store
GeneratedKeyAfterHighest(st, kg) ==
    IF DOMAIN st = {} THEN 1
    ELSE (CHOOSE k \in DOMAIN st : \A j \in DOMAIN st : j <= k) + 1

\* the key generator of createObjectStore(..., {autoIncrement: true}): add()
\* of a record without id takes the generator's current number as the key
GeneratedKey(st, kg) == kg

\* script.js BookmarkDB.search: the filter after getAll
search(query, all) ==
    LET searchTerm == Trim(toLowerCase(query))
        Match(bookmark) ==
            \/ includes(toLowerCase(bookmark.name), searchTerm)
            \/ includes(toLowerCase(bookmark.url), searchTerm)
            \/ \E t \in DOMAIN bookmark.tags :
                   includes(toLowerCase(bookmark.tags[t]), searchTerm)
    IN  IF searchTerm = Empty THEN all ELSE SelectSeq(all, Match)

\* part_000 matchesKeyword
matchesKeyword(item, kw) ==
    IF kw = Empty THEN TRUE
    ELSE LET s    == toLowerCase(kw)
             name == toLowerCase(item.name)
             url  == toLowerCase(item.url)
             tags == toLowerCase(join(item.tags, <<",">>))
         IN  includes(name, s) \/ includes(url, s) \/ includes(tags, s)

\* the comparator handed to sort: new Date(b.createdAt) - new Date(a.createdAt);
\* part_000 reads an empty createdAt as new Date(0).  A NaN difference counts
\* as 0 in Array.prototype.sort.
TimeOf(rec, emptyIsEpoch) ==
    IF emptyIsEpoch /\ rec.createdAt = Empty THEN 0 ELSE DateValue(rec.createdAt)

\* variant: the difference taken the other way round, oldest first
sortCompareOldestFirst(a, b, emptyIsEpoch) ==
    LET ta == TimeOf(a, emptyIsEpoch)
        tb == TimeOf(b, emptyIsEpoch)
    IN  IF ta = NaN \/ tb = NaN THEN 0 ELSE ta - tb

sortCompare(a, b, emptyIsEpoch) ==
    LET ta == TimeOf(a, emptyIsEpoch)
        tb == TimeOf(b, emptyIsEpoch)
    IN  IF ta = NaN \/ tb = NaN THEN 0 ELSE tb - ta

\* Array.prototype.sort (stable): x goes behind every element that does not
\* compare greater than it
RECURSIVE InsertSorted(_, _, _)
InsertSorted(sorted, x, emptyIsEpoch) ==
    IF sorted = << >> THEN << x >>
    ELSE IF sortCompare(sorted[Len(sorted)], x, emptyIsEpoch) <= 0
         THEN Append(sorted, x)
         ELSE Append(InsertSorted(SubSeq(sorted, 1, Len(sorted) - 1), x, emptyIsEpoch),
                     sorted[Len(sorted)])

RECURSIVE sort(_, _)
sort(list, emptyIsEpoch) ==
    IF list = << >> THEN << >>
    ELSE InsertSorted(sort(SubSeq(list, 1, Len(list) - 1), emptyIsEpoch),
                      list[Len(list)], emptyIsEpoch)

\* itemsPerPage (script.js) and PAGE_SIZE (part_000)
itemsPerPage == 12
PAGE_SIZE == 12

\* Math.ceil(n / d)
Ceil(n, d) == (n + d - 1) \div d

Min(a, b) == IF a < b THEN a ELSE b
Max(a, b) == IF a > b THEN a ELSE b

\* Array.prototype.slice(start, end): a negative index counts from the end
slice(list, start, end) ==
    LET len  == Len(list)
        from == IF start < 0 THEN Max(len + start, 0) ELSE Min(start, len)
        to   == IF end < 0 THEN Max(len + end, 0) ELSE Min(end, len)
    IN  SubSeq(list, from + 1, to)

\* a page cut that takes one item of the next page along
pageSliceOverlapping(list, p, size) == slice(list, (p - 1) * size, (p - 1) * size + size + 1)

\* the cut both renderers make for page p:
\*   script.js  startIndex = (currentPage - 1) * itemsPerPage; slice(startIndex, startIndex + itemsPerPage)
\*   part_000   start = (state.page - 1) * PAGE_SIZE; slice(start, start + PAGE_SIZE)
pageSlice(list, p, size) == slice(list, (p - 1) * size, (p - 1) * size + size)

\* script.js renderBookmarks: the cards on the page
pageBookmarks == pageSlice(filteredBookmarks, currentPage, itemsPerPage)

\* part_000 renderList: the cards on the page
renderListSlice == pageSlice(items, page, PAGE_SIZE)

\* the ids of the cards whose buttons the user can click
CardIds ==
    IF impl = "script" THEN { pageBookmarks[i].id : i \in DOMAIN pageBookmarks }
    ELSE { renderListSlice[i].id : i \in DOMAIN renderListSlice }

-----------------------------------------------------------------------------
(* What the user types *)

\* "Al"
NameAl == <<"A", "l">>

UrlHttpA  == <<"h","t","t","p",":","/","/","a">>
UrlHttpsB == <<"H","T","T","P","S",":","/","/","b">>
UrlMailto == <<"m","a","i","l","t","o",":","b">>
UrlNotAUrl == <<"n","o","t"," ","a"," ","u","r","l">>

\* "dev, Dev ,  tools"
TagsScenarioB == <<"d","e","v",","," ","D","e","v"," ",","," "," ","t","o","o","l","s">>
\* "tools" FULLWIDTH-SEMICOLON "dev;"
TagsMixed == <<"t","o","o","l","s", FullWidthSemicolon, "d","e","v",";">>

\* the form as filled in: name, url, tags as typed
Form(name, url, tags) == [name |-> name, url |-> url, tags |-> tags]

Forms ==
    { Form(NameAl, UrlHttpA, TagsScenarioB),
      Form(<<" ", "B", "o">>, <<" ">> \o UrlHttpsB, TagsMixed),
      Form(<<" ", "B", "o">>, UrlMailto, Empty),
      Form(<<" ">>, UrlHttpA, <<"x">>),
      Form(NameAl, UrlNotAUrl, <<"d","e","v">>),
      Form(NameAl, Empty, Empty) }

\* the creation date field of the edit form of part_000: left empty, or a date
CreatedAtInputs ==
    { Empty,
      fmtDate([year |-> 2020, month |-> 0, date |-> 1, hours |-> 9, minutes |-> 5]) \o <<" ">> }

SearchInputs ==
    { Empty, << " " >>, << "D", "E", "V", " " >>, << "v", ",", "T" >> }

-----------------------------------------------------------------------------
(* IndexedDB transactions *)

\* a live transaction on the store with the request it is waiting for.
\*   op    add | update | delete | getAll | get
\*   stage get, put: the two requests of update; run: the only request
\*   data  the record to add, or the patch of update
\*   got   what update's get request read
\*   query the searchQuery argument of script.js loadBookmarks
Tx(op, id, data, query) ==
    [op |-> op, id |-> id, data |-> data, got |-> << >>,
     stage |-> IF op = "update" THEN "get" ELSE "run", query |-> query,
     fresh |-> FALSE]

\* the reload a search starts; fresh records that the keyword it applies is
\* not the keyword of the reload started before it
SearchTx(query) ==
    [Tx("getAll", NoId, NoData, query) EXCEPT !.fresh = (query # lastQuery)]

\* db.transaction(..., 'readonly') for get and getAll, 'readwrite' otherwise
ReadOnly(t) == t.op \in {"get", "getAll", "export"}

\* transactions that do not wait for one another
RunnableAtOnce(i) == TRUE

\* IndexedDB runs a read-write transaction only when every transaction created
\* before it on the same store has finished, and a read-only one only when
\* every read-write transaction created before it has
Runnable(i) ==
    IF ReadOnly(txs[i]) THEN \A j \in 1..(i - 1) : ReadOnly(txs[j]) ELSE i = 1

Without(i) == SubSeq(txs, 1, i - 1) \o SubSeq(txs, i + 1, Len(txs))

\* adds that have been asked for and not yet stored
PendingAdds == Cardinality({ i \in DOMAIN txs : txs[i].op = "add" })

-----------------------------------------------------------------------------
(* The state after the page has loaded: the store is new and empty, and the
   first loadBookmarks() / refreshList() waits for its getAll *)

TagsIdle == tagIn = Empty /\ tagOut = << >> /\ tagPc = "off" /\ tagSaved = << >>

Init ==
    /\ impl \in {"script", "part"}
    /\ store = EmptyStore
    /\ keyGen = 1
    /\ txs = << Tx("getAll", NoId, NoData, Empty) >>
    /\ clock = 0
    /\ currentPage = 1 /\ allBookmarks = << >> /\ filteredBookmarks = << >>
    /\ currentEditId = NoId /\ deleteTargetId = NoId
    /\ totalCount = 0 /\ displayCount = 0
    /\ page = 1 /\ items = << >> /\ total = 0 /\ keyword = Empty
    /\ deletingId = NoId /\ mode = "add" /\ f_id = NoId
    /\ searchInput = Empty
    /\ reported = "nothing"
    /\ exported = << >> /\ lastQuery = Empty /\ pageAsked = 1
    /\ issued = << >>
    /\ removed = {}
    /\ TagsIdle

dbVars == << store, keyGen, issued, removed >>
scriptVars == << currentPage, allBookmarks, filteredBookmarks, currentEditId,
                 deleteTargetId, totalCount, displayCount >>
partVars == << page, items, total, keyword, deletingId, mode, f_id >>
tagVars == << tagIn, tagOut, tagPc, tagSaved >>

viewVars == << currentPage, allBookmarks, filteredBookmarks, totalCount, displayCount >>
listVars == << page, items, total >>

\* what a handler reports when it gives up:
\*   ValidationError  script.js showToast of the two messages of the form
\*                    checks; part_000 setCustomValidity + reportValidity
\*   SaveFailed       the catch of the submit handler: update rejected with
\*                    'Bookmark not found' / 'Not found'
\*   NotFound         script.js showEditModal finds no record
\*   NothingToExport  script.js exportToExcel finds the store empty
ValidationError == "ValidationError"
SaveFailed == "SaveFailed"
NothingToExport == "NothingToExport"
NotFound == "NotFound"

-----------------------------------------------------------------------------
(* src/script.js: what the user does *)

\* loadBookmarks(searchQuery) up to its await: db.search / db.getAll open a
\* read-only transaction and ask for getAll
loadBookmarksStart(queue, searchQuery) ==
    Append(queue, Tx("getAll", NoId, NoData, searchQuery))

showAddModal ==
    /\ impl = "script"
    /\ currentEditId' = NoId
    /\ UNCHANGED << impl, pageAsked, exported, lastQuery, reported, dbVars, txs, clock, viewVars, deleteTargetId,
                    partVars, searchInput, tagVars >>

closeModal ==
    /\ impl = "script"
    /\ currentEditId # NoId
    /\ currentEditId' = NoId
    /\ UNCHANGED << impl, pageAsked, exported, lastQuery, reported, dbVars, txs, clock, viewVars, deleteTargetId,
                    partVars, searchInput, tagVars >>

\* showEditModal(id) up to its await: db.get(id)
showEditModal(id) ==
    /\ impl = "script"
    /\ Len(txs) < MaxTx
    /\ txs' = Append(txs, Tx("get", id, NoData, Empty))
    /\ UNCHANGED << impl, pageAsked, exported, lastQuery, reported, dbVars, clock, scriptVars, partVars, searchInput, tagVars >>

showDeleteModal(id) ==
    /\ impl = "script"
    /\ deleteTargetId' = id
    /\ UNCHANGED << impl, pageAsked, exported, lastQuery, reported, dbVars, txs, clock, viewVars, currentEditId,
                    partVars, searchInput, tagVars >>

closeDeleteModal ==
    /\ impl = "script"
    /\ deleteTargetId # NoId
    /\ deleteTargetId' = NoId
    /\ UNCHANGED << impl, pageAsked, exported, lastQuery, reported, dbVars, txs, clock, viewVars, currentEditId,
                    partVars, searchInput, tagVars >>

\* handleFormSubmit up to its await.  The checks return before anything is
\* asked of the store; db.update / db.add open a read-write transaction.
handleFormSubmit(form) ==
    LET name == Trim(form.name)
        url  == Trim(form.url)
        tags == handleFormSubmitTags(form.tags)
        bookmark == [name |-> name, url |-> url, tags |-> tags, createdAt |-> Empty]
    IN  /\ impl = "script"
        /\ IF name = Empty \/ url = Empty
           THEN /\ reported' = ValidationError
                /\ UNCHANGED << txs, clock >>
           ELSE IF ~ handleFormSubmitUrlOk(url)
           THEN /\ reported' = ValidationError
                /\ UNCHANGED << txs, clock >>
           ELSE IF currentEditId # NoId
           THEN /\ Len(txs) < MaxTx
                /\ txs' = Append(txs, Tx("update", currentEditId, bookmark, Empty))
                /\ UNCHANGED << clock, reported >>
           ELSE /\ Len(txs) < MaxTx
                /\ keyGen + PendingAdds <= MaxKey
                /\ \E now \in clock..MaxClock :
                     /\ clock' = now
                     /\ txs' = Append(txs,
                            Tx("add", NoId,
                               [bookmark EXCEPT !.createdAt = formattedDate(DateAt(now))],
                               Empty))
                /\ UNCHANGED reported
        /\ UNCHANGED << impl, pageAsked, exported, lastQuery, dbVars, viewVars, currentEditId, deleteTargetId,
                        partVars, searchInput, tagVars >>

\* confirmDelete up to its await
confirmDelete ==
    /\ impl = "script"
    /\ deleteTargetId # NoId
    /\ Len(txs) < MaxTx
    /\ txs' = Append(txs, Tx("delete", deleteTargetId, NoData, Empty))
    /\ UNCHANGED << impl, pageAsked, exported, lastQuery, reported, dbVars, clock, scriptVars, partVars, searchInput, tagVars >>

\* handleSearch up to the await inside loadBookmarks
handleSearch ==
    /\ impl = "script"
    /\ Len(txs) < MaxTx
    /\ txs' = Append(txs, SearchTx(Trim(searchInput)))
    /\ lastQuery' = Trim(searchInput)
    /\ UNCHANGED << impl, pageAsked, exported, reported, dbVars, clock, scriptVars, partVars, searchInput, tagVars >>

\* the user edits the search box; the 'input' listener of script.js searches
\* at once when the box has become empty, part_000 searches later (debounce)
searchInputEdited(value) ==
    /\ value # searchInput
    /\ searchInput' = value
    /\ IF impl = "script" /\ value = Empty
       THEN /\ Len(txs) < MaxTx
            /\ txs' = Append(txs, SearchTx(Trim(value)))
            /\ lastQuery' = Trim(value)
       ELSE UNCHANGED << txs, lastQuery >>
    /\ UNCHANGED << impl, pageAsked, exported, reported, dbVars, clock, scriptVars, partVars, tagVars >>

-----------------------------------------------------------------------------
(* src/unnamed/part_000: what the user does *)

\* refreshList up to its await: getAllBookmarks
refreshListStart(queue) == Append(queue, Tx("getAll", NoId, NoData, Empty))

\* the click listener of addBtn / emptyAddBtn: resetForm()
resetForm ==
    /\ impl = "part"
    /\ mode' = "add" /\ f_id' = NoId
    /\ UNCHANGED << impl, pageAsked, exported, lastQuery, reported, dbVars, txs, clock, scriptVars, listVars, keyword, deletingId,
                    searchInput, tagVars >>

onCardActionClick(id, action) ==
    /\ impl = "part"
    /\ IF action = "edit"
       THEN /\ \E i \in DOMAIN items : items[i].id = id
            /\ mode' = "edit" /\ f_id' = id
            /\ UNCHANGED deletingId
       ELSE /\ deletingId' = id
            /\ UNCHANGED << mode, f_id >>
    /\ UNCHANGED << impl, pageAsked, exported, lastQuery, reported, dbVars, txs, clock, scriptVars, listVars, keyword,
                    searchInput, tagVars >>

\* onFormSubmit up to its await
onFormSubmit(form, f_createdAt) ==
    LET url  == Trim(form.url)
        name == Trim(form.name)
        tags == parseTags(form.tags)
        createdAt == Trim(f_createdAt)
        data == [name |-> name, url |-> url, tags |-> tags, createdAt |-> Empty]
    IN  /\ impl = "part"
        /\ IF ~ isValidUrl(url)
           THEN /\ reported' = ValidationError
                /\ UNCHANGED << txs, clock >>
           ELSE IF name = Empty
           THEN /\ reported' = ValidationError
                /\ UNCHANGED << txs, clock >>
           ELSE IF mode = "add"
           THEN /\ UNCHANGED reported
                /\ Len(txs) < MaxTx
                /\ keyGen + PendingAdds <= MaxKey
                /\ f_createdAt = Empty
                /\ \E now \in clock..MaxClock :
                     /\ clock' = now
                     /\ txs' = Append(txs,
                            Tx("add", NoId,
                               [data EXCEPT !.createdAt = fmtDate(DateAt(now))], Empty))
           ELSE /\ UNCHANGED reported
                /\ Len(txs) < MaxTx
                /\ txs' = Append(txs,
                       Tx("update", f_id,
                          IF createdAt # Empty
                          THEN [data EXCEPT !.createdAt = createdAt] ELSE data,
                          Empty))
                /\ UNCHANGED clock
        /\ UNCHANGED << impl, pageAsked, exported, lastQuery, dbVars, scriptVars, listVars, keyword, deletingId, mode, f_id,
                        searchInput, tagVars >>

\* onConfirmDelete up to its await
onConfirmDelete ==
    /\ impl = "part"
    /\ deletingId # NoId
    /\ Len(txs) < MaxTx
    /\ txs' = Append(txs, Tx("delete", deletingId, NoData, Empty))
    /\ UNCHANGED << impl, pageAsked, exported, lastQuery, reported, dbVars, clock, scriptVars, partVars, searchInput, tagVars >>

\* onSearch; refreshList runs up to its await
onSearch ==
    /\ impl = "part"
    /\ Len(txs) < MaxTx
    /\ keyword' = Trim(searchInput)
    /\ page' = 1
    /\ txs' = Append(txs, SearchTx(Trim(searchInput)))
    /\ lastQuery' = Trim(searchInput)
    /\ UNCHANGED << impl, pageAsked, exported, reported, dbVars, clock, scriptVars, items, total, deletingId, mode, f_id,
                    searchInput, tagVars >>

-----------------------------------------------------------------------------
(* IndexedDB serves a request; the handler that awaited it runs on *)

\* what follows a successful add / update in the two submit handlers:
\*   script.js  showToast(...); closeModal(); await loadBookmarks(searchInput.value)
\*   part_000   closeModal(...); resetForm(); await refreshList()
AfterSave(i) ==
    IF impl = "script"
    THEN /\ currentEditId' = NoId
         /\ txs' = loadBookmarksStart(Without(i), searchInput)
         /\ lastQuery' = searchInput
         /\ UNCHANGED << viewVars, deleteTargetId, partVars >>
    ELSE /\ mode' = "add" /\ f_id' = NoId
         /\ txs' = refreshListStart(Without(i))
         /\ lastQuery' = keyword
         /\ UNCHANGED << scriptVars, listVars, keyword, deletingId >>

\* store.add(bookmarkData) succeeds: request.result is the generated key
addBookmark(i) ==
    LET id == GeneratedKey(store, keyGen)
    IN  /\ i \in DOMAIN txs /\ Runnable(i)
        /\ txs[i].op = "add"
        /\ store' = StorePut(store, WithId(txs[i].data, id))
        /\ keyGen' = keyGen + 1
        /\ issued' = Append(issued, id)
        /\ AfterSave(i)
        /\ UNCHANGED << impl, pageAsked, exported, clock, removed, reported, searchInput, tagVars >>

\* an update that writes the patch as it is, creation date included
updateReplaceWhole(val, data, id) ==
    [id |-> id, name |-> data.name, url |-> data.url, tags |-> data.tags,
     createdAt |-> data.createdAt]

\* the record update() writes back
\*   script.js  data.name = ...; data.url = ...; data.tags = ...
\*   part_000   { ...val, ...data, id }
updateMerge(val, data, id) ==
    IF impl = "script"
    THEN [val EXCEPT !.name = data.name, !.url = data.url, !.tags = data.tags]
    ELSE [id |-> id, name |-> data.name, url |-> data.url, tags |-> data.tags,
          createdAt |-> IF data.createdAt # Empty THEN data.createdAt ELSE val.createdAt]

\* update, first request: getRequest.onsuccess.  With a record, put is asked
\* for in the same transaction; without, the promise is rejected and the
\* handler's catch reports it.
updateGet(i) ==
    /\ i \in DOMAIN txs /\ Runnable(i)
    /\ txs[i].op = "update" /\ txs[i].stage = "get"
    /\ IF StoreGet(store, txs[i].id) # << >>
       THEN /\ txs' = [txs EXCEPT ![i].stage = "put", ![i].got = StoreGet(store, txs[i].id)]
            /\ UNCHANGED reported
       ELSE /\ txs' = Without(i)
            /\ reported' = SaveFailed
    /\ UNCHANGED << impl, pageAsked, exported, lastQuery, dbVars, clock, viewVars, currentEditId, deleteTargetId,
                    listVars, keyword, deletingId, mode, f_id,
                    searchInput, tagVars >>

\* update, second request: put succeeds
updatePut(i) ==
    LET next == updateMerge(txs[i].got[1], txs[i].data, txs[i].id)
    IN  /\ i \in DOMAIN txs /\ Runnable(i)
        /\ txs[i].op = "update" /\ txs[i].stage = "put"
        /\ store' = StorePut(store, next)
        /\ keyGen' = IF next.id >= keyGen THEN next.id + 1 ELSE keyGen
        /\ AfterSave(i)
        /\ UNCHANGED << impl, pageAsked, exported, clock, issued, removed, reported, searchInput, tagVars >>

\* store.delete(id) succeeds; then
\*   script.js  showToast(...); closeDeleteModal(); await loadBookmarks(searchInput.value)
\*   part_000   state.deletingId = null; ...; await refreshList()
deleteBookmark(i) ==
    /\ i \in DOMAIN txs /\ Runnable(i)
    /\ txs[i].op = "delete"
    /\ store' = StoreDelete(store, txs[i].id)
    /\ removed' = removed \cup { [id |-> k, at |-> Len(issued)] : k \in DOMAIN store \cap {txs[i].id} }
    /\ IF impl = "script"
       THEN /\ deleteTargetId' = NoId
            /\ txs' = loadBookmarksStart(Without(i), searchInput)
            /\ lastQuery' = searchInput
            /\ UNCHANGED << viewVars, currentEditId, partVars >>
       ELSE /\ deletingId' = NoId
            /\ txs' = refreshListStart(Without(i))
            /\ lastQuery' = keyword
            /\ UNCHANGED << scriptVars, listVars, keyword, mode, f_id >>
    /\ UNCHANGED << impl, pageAsked, exported, keyGen, issued, clock, reported, searchInput, tagVars >>

\* script.js loadBookmarks after its await: filter (db.search), sort, page 1,
\* render() with updateStats()
loadBookmarks(i) ==
    LET all == StoreGetAll(store, keyGen)
        searchQuery == txs[i].query
    IN  /\ impl = "script"
        /\ i \in DOMAIN txs /\ Runnable(i)
        /\ txs[i].op = "getAll"
        /\ txs' = Without(i)
        /\ allBookmarks' = IF searchQuery # Empty THEN allBookmarks ELSE all
        /\ filteredBookmarks' =
               sort(IF searchQuery # Empty THEN search(searchQuery, all) ELSE all, FALSE)
        /\ currentPage' = 1
        /\ totalCount' = Len(allBookmarks')
        /\ displayCount' = Len(filteredBookmarks')
        /\ UNCHANGED << impl, pageAsked, exported, lastQuery, reported, dbVars, clock, currentEditId, deleteTargetId, partVars,
                        searchInput, tagVars >>

\* part_000 refreshList after its await: filter by state.keyword, sort,
\* renderList() with its clamp of state.page
refreshList(i) ==
    LET all == StoreGetAll(store, keyGen)
        Keep(x) == matchesKeyword(x, keyword)
        filtered == sort(IF keyword # Empty THEN SelectSeq(all, Keep) ELSE all, TRUE)
        pages == Max(1, Ceil(Len(filtered), PAGE_SIZE))
    IN  /\ impl = "part"
        /\ i \in DOMAIN txs /\ Runnable(i)
        /\ txs[i].op = "getAll"
        /\ txs' = Without(i)
        /\ items' = filtered
        /\ total' = Len(filtered)
        /\ page' = IF page > pages THEN pages ELSE page
        /\ UNCHANGED << impl, pageAsked, exported, lastQuery, reported, dbVars, clock, scriptVars, keyword, deletingId, mode, f_id,
                        searchInput, tagVars >>

\* script.js showEditModal after its await
showEditModalLoaded(i) ==
    /\ impl = "script"
    /\ i \in DOMAIN txs /\ Runnable(i)
    /\ txs[i].op = "get"
    /\ txs' = Without(i)
    /\ IF StoreGet(store, txs[i].id) = << >>
       THEN reported' = NotFound /\ UNCHANGED currentEditId
       ELSE currentEditId' = txs[i].id /\ UNCHANGED reported
    /\ UNCHANGED << impl, pageAsked, exported, lastQuery, dbVars, clock, viewVars, deleteTargetId, partVars, searchInput,
                    tagVars >>

-----------------------------------------------------------------------------

Next ==
    \/ showAddModal
    \/ closeModal
    \/ \E id \in CardIds : showEditModal(id)
    \/ \E id \in CardIds : showDeleteModal(id)
    \/ closeDeleteModal
    \/ \E form \in Forms : handleFormSubmit(form)
    \/ confirmDelete
    \/ resetForm
    \/ \E id \in CardIds, action \in {"edit", "delete"} : onCardActionClick(id, action)
    \/ \E form \in Forms, f_createdAt \in CreatedAtInputs : onFormSubmit(form, f_createdAt)
    \/ onConfirmDelete
    \/ \E i \in 1..MaxTx :
         \/ addBookmark(i)
         \/ updateGet(i)
         \/ updatePut(i)
         \/ deleteBookmark(i)
         \/ loadBookmarks(i)
         \/ refreshList(i)
         \/ showEditModalLoaded(i)

Spec == Init /\ [][Next]_vars

\* the search handlers never write the store; the whole program is SpecFull
Search ==
    \/ handleSearch
    \/ onSearch
    \/ \E value \in SearchInputs : searchInputEdited(value)

SpecFull == Init /\ [][Next \/ Search]_vars

-----------------------------------------------------------------------------------------------------------------------------------------------------
(* Browsing: pages and export *)

\* script.js renderPagination / goToPage: totalPages
totalPages == Ceil(Len(filteredBookmarks), itemsPerPage)

\* part_000 renderList: pages, of a list of n items
pages(n) == Max(1, Ceil(n, PAGE_SIZE))

\* script.js goToPage(page)
goToPage(p) ==
    /\ impl = "script"
    /\ pageAsked' = p
    /\ currentPage' = IF p < 1 \/ p > totalPages THEN currentPage ELSE p
    /\ UNCHANGED << impl, exported, lastQuery, reported, dbVars, txs, clock, allBookmarks,
                    filteredBookmarks, currentEditId, deleteTargetId, totalCount,
                    displayCount, partVars, searchInput, tagVars >>

\* part_000 onPageClick with data-page = p, and the renderList() it calls
onPageClick(p) ==
    /\ impl = "part"
    /\ total' = Len(items)
    /\ pageAsked' = p
    /\ page' = IF p > pages(Len(items)) THEN pages(Len(items)) ELSE p
    /\ UNCHANGED << impl, exported, lastQuery, reported, dbVars, txs, clock, scriptVars,
                    items, keyword, deletingId, mode, f_id, searchInput, tagVars >>

\* exportToExcel up to its await: getAll in a read-only transaction
exportToExcel ==
    /\ Len(txs) < MaxTx
    /\ txs' = Append(txs, Tx("export", NoId, NoData, Empty))
    /\ UNCHANGED << impl, pageAsked, exported, lastQuery, reported, dbVars, clock, scriptVars, partVars,
                    searchInput, tagVars >>

\* one row of the export: ID, name, url, tags as one text, creation date
exportRow(b, sep) ==
    [ID |-> b.id, name |-> b.name, url |-> b.url, tags |-> join(b.tags, sep),
     createdAt |-> b.createdAt]

\* script.js exportToExcel after its await: sorted, tags joined by a
\* full-width comma; nothing is written when the store is empty
exportToExcelRows(bookmarks) ==
    [n \in DOMAIN sort(bookmarks, FALSE) |->
        exportRow(sort(bookmarks, FALSE)[n], << FullWidthComma >>)]

\* part_000 exportToExcel after its await: all.map(...), tags joined by ', '
exportToExcelSheet(all) ==
    [n \in DOMAIN all |-> exportRow(all[n], << ",", " " >>)]

exportToExcelWritten(i) ==
    LET all == StoreGetAll(store, keyGen)
    IN  /\ i \in DOMAIN txs /\ Runnable(i)
        /\ txs[i].op = "export"
        /\ txs' = Without(i)
        /\ IF impl = "script"
           THEN IF Len(all) = 0
                THEN reported' = NothingToExport /\ UNCHANGED exported
                ELSE exported' = exportToExcelRows(all) /\ UNCHANGED reported
           ELSE exported' = exportToExcelSheet(all) /\ UNCHANGED reported
        /\ UNCHANGED << impl, pageAsked, lastQuery, dbVars, clock, scriptVars, partVars,
                        searchInput, tagVars >>

-----------------------------------------------------------------------------
(* The page opened on a database that already holds records *)

NameBo == << "B", "o" >>
NameDev == << "D", "e", "v" >>
TagDev == << "d", "e", "v" >>
TagTools == << "t", "o", "o", "l", "s" >>

\* record k of such a database: created in key order, two to a minute.
\* The first has no tags, the even ones are tagged dev and tools, the other
\* odd ones are named Dev.
SeedRecord(k) ==
    [id |-> k,
     name |-> IF k = 1 THEN NameAl ELSE IF k % 2 = 0 THEN NameBo ELSE NameDev,
     url |-> UrlHttpA,
     tags |-> IF k % 2 = 0 THEN << TagDev, TagTools >> ELSE << >>,
     createdAt |-> fmtDate(DateAt(k \div 2))]

Seeded(n) == [k \in 1..n |-> SeedRecord(k)]

\* how many records the database holds: none, a few, a page and more
SeedSizes == {0, 1, MaxSeed - 1, MaxSeed}

\* the page is opened on a database of n records, n in sizes: boot starts
\* the first load
InitOn(sizes) ==
    /\ impl \in {"script", "part"}
    /\ \E n \in sizes :
         /\ store = Seeded(n)
         /\ keyGen = n + 1
         /\ issued = [k \in 1..n |-> k]
    /\ txs = << Tx("getAll", NoId, NoData, Empty) >>
    /\ clock = 0
    /\ currentPage = 1 /\ allBookmarks = << >> /\ filteredBookmarks = << >>
    /\ currentEditId = NoId /\ deleteTargetId = NoId
    /\ totalCount = 0 /\ displayCount = 0
    /\ page = 1 /\ items = << >> /\ total = 0 /\ keyword = Empty
    /\ deletingId = NoId /\ mode = "add" /\ f_id = NoId
    /\ searchInput = Empty
    /\ reported = "nothing"
    /\ exported = << >> /\ lastQuery = Empty /\ pageAsked = 1
    /\ removed = {}
    /\ TagsIdle

\* searching and turning pages
InitView == InitOn(SeedSizes)

\* the page numbers a page request may carry
PageArgs == 0..MaxPageArg

NextView ==
    \/ handleSearch
    \/ onSearch
    \/ \E value \in SearchInputs : searchInputEdited(value)
    \/ \E p \in PageArgs : goToPage(p)
    \/ \E p \in PageArgs : onPageClick(p)
    \/ \E i \in 1..MaxTx :
         \/ loadBookmarks(i)
         \/ refreshList(i)

SpecView == InitView /\ [][NextView]_vars

\* exporting
NextExport ==
    \/ exportToExcel
    \/ \E i \in 1..MaxTx :
         \/ loadBookmarks(i)
         \/ refreshList(i)
         \/ exportToExcelWritten(i)

SpecExport == InitOn(0..MaxSeed) /\ [][NextExport]_vars

\* searching and deleting in a small database
InitCurate == InitOn(0..MaxKey)

NextCurate ==
    \/ handleSearch
    \/ onSearch
    \/ \E value \in SearchInputs : searchInputEdited(value)
    \/ \E id \in CardIds : showDeleteModal(id)
    \/ \E id \in CardIds : onCardActionClick(id, "delete")
    \/ confirmDelete
    \/ onConfirmDelete
    \/ \E i \in 1..MaxTx :
         \/ deleteBookmark(i)
         \/ loadBookmarks(i)
         \/ refreshList(i)

SpecCurate == InitCurate /\ [][NextCurate]_vars

-----
(* Tag normalisation on its own: the tags field goes through the parsing of
   the loaded implementation *)

TagAlphabet == {"a", "A", "b", ",", ";", " "}

TagInputs ==
    UNION { [1..n -> TagAlphabet] : n \in 0..MaxTagLen } \cup {TagsScenarioB, TagsMixed}

InitTags ==
    /\ impl \in {"script", "part"}
    /\ store = EmptyStore /\ keyGen = 1 /\ txs = << >> /\ clock = 0
    /\ currentPage = 1 /\ allBookmarks = << >> /\ filteredBookmarks = << >>
    /\ currentEditId = NoId /\ deleteTargetId = NoId
    /\ totalCount = 0 /\ displayCount = 0
    /\ page = 1 /\ items = << >> /\ total = 0 /\ keyword = Empty
    /\ deletingId = NoId /\ mode = "add" /\ f_id = NoId
    /\ searchInput = Empty
    /\ reported = "nothing" /\ exported = << >> /\ lastQuery = Empty /\ pageAsked = 1
    /\ issued = << >> /\ removed = {}
    /\ tagIn \in TagInputs /\ tagOut = << >> /\ tagPc = "typed" /\ tagSaved = << >>

nonTagVars == << impl, dbVars, txs, clock, scriptVars, partVars, searchInput, reported,
                exported, lastQuery, pageAsked >>

\* the text the edit form shows for a record's tags
\*   script.js showEditModal   bookmark.tags.join(full-width comma)
\*   part_000 fillFormForEdit  (item.tags || []).join(', ')
showEditModalTagsTextUnseparated(tags) == join(tags, Empty)

showEditModalTagsText(tags) == join(tags, << FullWidthComma >>)

fillFormForEditTagsText(tags) == join(tags, << ",", " " >>)

\* script.js handleFormSubmit, lines 495-514: the tags field is parsed, as
\* typed for a new record or as the edit form showed it
handleFormSubmitTagsStep ==
    /\ impl = "script" /\ tagPc \in {"typed", "edit"}
    /\ tagOut' = handleFormSubmitTags(tagIn)
    /\ tagPc' = IF tagPc = "typed" THEN "parsed" ELSE "saved"
    /\ UNCHANGED << tagIn, tagSaved, nonTagVars >>

\* part_000 onFormSubmit, line 341
parseTagsStep ==
    /\ impl = "part" /\ tagPc \in {"typed", "edit"}
    /\ tagOut' = parseTags(tagIn)
    /\ tagPc' = IF tagPc = "typed" THEN "parsed" ELSE "saved"
    /\ UNCHANGED << tagIn, tagSaved, nonTagVars >>

\* script.js showEditModal fills the tags field from the stored record
showEditModalTagsStep ==
    /\ impl = "script" /\ tagPc = "parsed"
    /\ tagSaved' = tagOut
    /\ tagIn' = showEditModalTagsText(tagOut)
    /\ tagPc' = "edit"
    /\ UNCHANGED << tagOut, nonTagVars >>

\* part_000 fillFormForEdit fills the tags field from the stored record
fillFormForEditTagsStep ==
    /\ impl = "part" /\ tagPc = "parsed"
    /\ tagSaved' = tagOut
    /\ tagIn' = fillFormForEditTagsText(tagOut)
    /\ tagPc' = "edit"
    /\ UNCHANGED << tagOut, nonTagVars >>

NextTags ==
    \/ handleFormSubmitTagsStep
    \/ parseTagsStep
    \/ showEditModalTagsStep
    \/ fillFormForEditTagsStep

SpecTags == InitTags /\ [][NextTags]_vars

-----------------------------------------------------------------------------
(* Properties *)

\* the date the edit form of part_000 can put in place of the creation date
OverrideDate == Trim(CHOOSE c \in CreatedAtInputs : c # Empty)

\* C1: every successful create returns an id greater than every id an
\* earlier create returned, and an id whose record was deleted is not
\* returned by any later create; every record is stored under its own id.
C1_IdsIncreaseAndAreNeverReused ==
    /\ \A i, j \in DOMAIN issued : i < j => issued[i] < issued[j]
    /\ \A r \in removed : \A k \in DOMAIN issued : k > r.at => issued[k] # r.id
    /\ \A k \in DOMAIN store : store[k].id = k /\ \E n \in DOMAIN issued : issued[n] = k

\* a create has succeeded after the record with the highest id so far was deleted
C1_Witness ==
    \E r \in removed :
        /\ r.at >= 1 /\ r.at < Len(issued)
        /\ r.id = issued[r.at]
        /\ issued[Len(issued)] \in DOMAIN store

\* what the claim calls an invalid draft: no name, no url, or a url the URL
\* parser rejects
InvalidDraft(form) ==
    \/ Trim(form.name) = Empty
    \/ Trim(form.url) = Empty
    \/ ~ URLParse(Trim(form.url)).ok

\* the form is in create mode
CreateMode == IF impl = "script" THEN currentEditId = NoId ELSE mode = "add"

\* a submit of the form, in the loaded implementation
Submit(form) ==
    \/ handleFormSubmit(form)
    \/ \E c \in CreatedAtInputs : onFormSubmit(form, c)

\* C2: a create whose draft is invalid reports a validation error and asks
\* nothing of the store: no transaction is opened, the records stay as they were.
C2_InvalidCreateWritesNothing ==
    [][ \A form \in Forms :
          (CreateMode /\ InvalidDraft(form) /\ Submit(form))
          => /\ txs' = txs
             /\ store' = store /\ keyGen' = keyGen
             /\ reported' = ValidationError
      ]_vars

\* an invalid create has been turned down while the store held a record,
\* and nothing waits on the store
C2_Witness ==
    /\ reported = ValidationError
    /\ DOMAIN store = {1}
    /\ txs = << >>

C4_UpdateOfMissingIdFails ==
    [][ \A i \in 1..MaxTx :
          /\ (updateGet(i) /\ txs[i].id \notin DOMAIN store)
             => /\ reported' = SaveFailed
                /\ txs' = Without(i)
                /\ store' = store /\ keyGen' = keyGen
          /\ updatePut(i) => DOMAIN store' = DOMAIN store
      ]_vars

\* an update has been turned down after its record was deleted, and the
\* record is still gone
C4_Witness ==
    /\ reported = SaveFailed
    /\ \E r \in removed : r.id \notin DOMAIN store
    /\ txs = << >>

\* C5: between the read and the write of an update nothing else touches
\* the store: the record an update has read is still the record in the store
\* when it writes, so no delete and no other update falls in between; and a
\* deleted id stays absent, no update brings it back.
C5_UpdateIsAtomic ==
    /\ \A i \in DOMAIN txs :
         (txs[i].op = "update" /\ txs[i].stage = "put")
         => /\ StoreGet(store, txs[i].id) = txs[i].got
            /\ txs[i].got # << >>
            /\ \A j \in DOMAIN txs : j # i => txs[j].stage # "put"
    /\ \A r \in removed : r.id \notin DOMAIN store

\* an update has read its record and a delete of the same record, or a
\* second update of it, waits behind it
C5_Witness ==
    \E i, j \in DOMAIN txs :
        /\ i < j
        /\ txs[i].op = "update" /\ txs[i].stage = "put"
        /\ txs[j].op \in {"delete", "update"}
        /\ txs[j].id = txs[i].id

\* C6: when a delete of id is done, get(id) finds nothing, getAll() has no
\* record with that id, and every record with another id is as it was.
C6_DeleteRemovesOneRecord ==
    [][ \A i \in 1..MaxTx :
          deleteBookmark(i)
          => LET id  == txs[i].id
                 all == StoreGetAll(store', keyGen')
             IN  /\ StoreGet(store', id) = << >>
                 /\ \A n \in DOMAIN all : all[n].id # id
                 /\ DOMAIN store' = DOMAIN store \ {id}
                 /\ \A k \in DOMAIN store \ {id} : StoreGet(store', k) = << store[k] >>
      ]_vars

\* one record has been deleted and another one is still there
C6_Witness ==
    /\ \E r \in removed : r.id \notin DOMAIN store
    /\ DOMAIN store # {}

\* a text "YYYY-MM-DD HH:MM"
IsDateText(s) ==
    /\ Len(s) = 16
    /\ s[5] = "-" /\ s[8] = "-" /\ s[11] = " " /\ s[14] = ":"
    /\ \A n \in (1..16) \ {5, 8, 11, 14} : \E d \in DOMAIN Digits : Digits[d] = s[n]

\* C7: a create puts under the id it returns a record with the draft's
\* name, url and tags and a creation date "YYYY-MM-DD HH:MM"; the store has
\* one record more and the records it had are as they were.
C7_CreateStoresTheDraft ==
    [][ \A i \in 1..MaxTx :
          addBookmark(i)
          => LET id    == issued'[Len(issued')]
                 draft == txs[i].data
                 got   == StoreGet(store', id)
             IN  /\ Len(issued') = Len(issued) + 1
                 /\ id \notin DOMAIN store
                 /\ got # << >>
                 /\ got[1].id = id
                 /\ got[1].name = draft.name
                 /\ got[1].url = draft.url
                 /\ got[1].tags = draft.tags
                 /\ IsDateText(got[1].createdAt)
                 /\ Cardinality(DOMAIN store') = Cardinality(DOMAIN store) + 1
                 /\ \A k \in DOMAIN store : store'[k] = store[k]
      ]_vars

\* a second record has been created next to the first, both with tags
C7_Witness ==
    /\ DOMAIN store = {1, 2}
    /\ store[1].tags # << >> /\ store[2].tags # << >>
    /\ store[1].name # store[2].name

\* C8: no record in the store carries two tags that are equal when case
\* is ignored.
C8_NoTwoTagsEqualIgnoringCase ==
    \A k \in DOMAIN store :
        \A a, b \in DOMAIN store[k].tags :
            a # b => toLowerCase(store[k].tags[a]) # toLowerCase(store[k].tags[b])

\* C9: the url of every record in the store parses as an absolute URL with a
\* scheme and an authority.
C9_StoredUrlIsAbsolute ==
    \A k \in DOMAIN store :
        /\ store[k].url # Empty
        /\ URLParse(store[k].url).ok
        /\ URLParse(store[k].url).authority

\* the tokens of a text: its longest runs of characters that are neither a
\* comma, a semicolon (ASCII or full-width) nor white space, in order
RECURSIVE TokensFrom(_, _)
TokensFrom(s, i) ==
    IF i > Len(s) THEN << >>
    ELSE IF s[i] \in TagSeparators \cup WhiteSpace THEN TokensFrom(s, i + 1)
    ELSE LET j == CHOOSE e \in i..Len(s) :
                      /\ \A n \in i..e : s[n] \notin TagSeparators \cup WhiteSpace
                      /\ e = Len(s) \/ s[e + 1] \in TagSeparators \cup WhiteSpace
         IN  << SubSeq(s, i, j) >> \o TokensFrom(s, j + 1)

\* the first n tokens without those an earlier token equals when case is ignored
RECURSIVE FirstSeen(_, _)
FirstSeen(ts, n) ==
    IF n = 0 THEN << >>
    ELSE FirstSeen(ts, n - 1) \o
         (IF \E m \in 1..(n - 1) : toLowerCase(ts[m]) = toLowerCase(ts[n])
          THEN << >> ELSE << ts[n] >>)

NormalizedTags(s) == FirstSeen(TokensFrom(s, 1), Len(TokensFrom(s, 1)))

\* C10: the tags a form submit makes of a text are its tokens (split on runs
\* of commas, semicolons and white space, trimmed, none empty) without
\* case-insensitive repeats, first casing and order kept; the empty text
\* gives no tags.
C10_TagsAreNormalized ==
    tagPc = "parsed" => tagOut = NormalizedTags(tagIn)

\* C11: a record opened for edit and saved with its tags field untouched
\* keeps its tags: the tags joined as the edit form shows them parse to the
\* same tags.
C11_TagsSurviveAnEdit ==
    tagPc = "saved" => tagOut = tagSaved

\* a record with two tags or more has been through the edit form
C11_Witness ==
    tagPc = "saved" /\ Len(tagSaved) >= 2 /\ tagOut = tagSaved

\* the working set and the page cursor of the loaded implementation
WorkingSet == IF impl = "script" THEN filteredBookmarks ELSE items
CurrentPage == IF impl = "script" THEN currentPage ELSE page

IdsOf(list) == { list[n].id : n \in DOMAIN list }

\* the keyword, case ignored, is part of the name, of the url or of one tag;
\* an empty or blank keyword is part of everything
KeywordMatches(r, kw) ==
    LET k == toLowerCase(Trim(kw))
    IN  \/ k = Empty
        \/ includes(toLowerCase(r.name), k)
        \/ includes(toLowerCase(r.url), k)
        \/ \E t \in DOMAIN r.tags : includes(toLowerCase(r.tags[t]), k)

\* C12: a query keeps exactly the records whose name, url or some single tag
\* contains the keyword, case ignored; an empty or blank keyword keeps all.
C12_FilterKeepsExactlyTheMatches ==
    [][ \A i \in 1..MaxTx :
          /\ loadBookmarks(i)
             => IdsOf(filteredBookmarks') =
                    { k \in DOMAIN store : KeywordMatches(store[k], txs[i].query) }
          /\ refreshList(i)
             => IdsOf(items') =
                    { k \in DOMAIN store : KeywordMatches(store[k], keyword) }
      ]_vars

\* the place of a character among the digits (0 for any other character)
CharRank(c) == IF \E d \in 1..10 : Digits[d] = c
               THEN CHOOSE d \in 1..10 : Digits[d] = c ELSE 0

\* of two texts "YYYY-MM-DD HH:MM", a is the later one
Later(a, b) ==
    \E n \in 1..Len(a) :
        /\ n <= Len(b)
        /\ \A m \in 1..(n - 1) : a[m] = b[m]
        /\ CharRank(a[n]) > CharRank(b[n])

\* newest first; records of the same minute in the order of their ids
NewestFirst(list) ==
    \A i, j \in DOMAIN list :
        i < j => /\ ~ Later(list[j].createdAt, list[i].createdAt)
                 /\ list[i].createdAt = list[j].createdAt => list[i].id < list[j].id

\* C13: the working set is ordered by createdAt, newest first, and records
\* with the same createdAt stand in the order of their ids.
C13_WorkingSetIsNewestFirst == NewestFirst(WorkingSet)

\* a full database is on display, the newest record first and the oldest
\* last, with two records of one minute next to each other
C13_Witness ==
    /\ txs = << >>
    /\ Len(WorkingSet) = MaxSeed
    /\ WorkingSet[1].id = MaxSeed
    /\ WorkingSet[MaxSeed].id = 1
    /\ \E n \in 1..(MaxSeed - 1) :
           /\ WorkingSet[n].createdAt = WorkingSet[n + 1].createdAt
           /\ WorkingSet[n].id < WorkingSet[n + 1].id

\* the number of pages the pagination is rendered with
NumPages == IF impl = "script" THEN totalPages ELSE pages(Len(items))

\* pages 1..n of a list, one after the other
RECURSIVE ConcatPages(_, _, _)
ConcatPages(list, n, size) ==
    IF n = 0 THEN << >>
    ELSE ConcatPages(list, n - 1, size) \o pageSlice(list, n, size)

\* pages 1..n are at most size long, share no record and together are the list
PagesCut(list, n, size) ==
    /\ \A p \in 1..n : Len(pageSlice(list, p, size)) \in 1..size
    /\ \A p, q \in 1..n :
           p # q => IdsOf(pageSlice(list, p, size)) \cap IdsOf(pageSlice(list, q, size)) = {}
    /\ ConcatPages(list, n, size) = list

C15_PageRequestsAreClamped ==
    [][ \A p \in PageArgs :
          (goToPage(p) \/ onPageClick(p)) =>
              LET last == Max(1, Ceil(Len(WorkingSet), itemsPerPage))
              IN  /\ p > last => CurrentPage' = last
                  /\ p < 1 => CurrentPage' = 1
      ]_vars

\* C16: the reload of a search whose keyword differs from the one before
\* it is rendered on page 1, whatever page was current before.
C16_NewKeywordShowsPageOne ==
    [][ \A i \in 1..MaxTx :
          ((loadBookmarks(i) \/ refreshList(i)) /\ txs[i].fresh) => CurrentPage' = 1
      ]_vars

\* the separators a sheet may join the tags of a row with
SheetSeparators == { << FullWidthComma >>, << ",", " " >>, << "," >> }

\* C17: the sheet has one row per record of the store, with the record's id,
\* name, url, tags joined by a separator, and createdAt, and the rows are
\* ordered by createdAt, newest first.
C17_ExportIsTheStoreNewestFirst ==
    [][ \A i \in 1..MaxTx :
          exportToExcelWritten(i) =>
              /\ Len(exported') = Cardinality(DOMAIN store)
              /\ { exported'[n].ID : n \in DOMAIN exported' } = DOMAIN store
              /\ \A n \in DOMAIN exported' :
                     LET row == exported'[n]
                         r   == store[row.ID]
                     IN  /\ row.name = r.name
                         /\ row.url = r.url
                         /\ row.createdAt = r.createdAt
                         /\ \E sep \in SheetSeparators : row.tags = join(r.tags, sep)
              /\ \A a, b \in DOMAIN exported' :
                     a < b => ~ Later(exported'[b].createdAt, exported'[a].createdAt)
      ]_vars

\* C18: a completed reload reports the number of records of the store as
\* the total, and the size of the working set as the number shown; part_000
\* reports one number, the size of the working set.
C18_CountsFollowTheStore ==
    [][ \A i \in 1..MaxTx :
          /\ loadBookmarks(i) => /\ totalCount' = Cardinality(DOMAIN store)
                                 /\ displayCount' = Len(filteredBookmarks')
          /\ refreshList(i) => total' = Len(items')
      ]_vars

\* C19: the current page is at least 1 and at most max(1, ceil(N / 12)) for
\* a working set of N records.
C19_CurrentPageExists ==
    /\ 1 <= CurrentPage
    /\ CurrentPage <= Max(1, Ceil(Len(WorkingSet), itemsPerPage))

\* what a reload with keyword q puts on display: the implementation's own
\* filter and sort over the store
DisplayedFor(q) ==
    LET all == StoreGetAll(store, keyGen)
        Keep(x) == matchesKeyword(x, q)
    IN  IF impl = "script" THEN sort(search(q, all), FALSE)
        ELSE sort(SelectSeq(all, Keep), TRUE)

\* C20: once no reload is in flight, the working set is the store filtered
\* by the keyword of the reload that was started last, newest first.
C20_LastStartedReloadWins ==
    (\A i \in DOMAIN txs : txs[i].op # "getAll") => WorkingSet = DisplayedFor(lastQuery)

====
